---------------------------- MODULE Spec2Model ----------------------------
(***************************************************************************)
(* marshmallow_attrs: the type-to-field resolver (field_for_schema) and    *)
(* the class schema builder (class_schema) of                              *)
(* src/marshmallow_attrs/__init__.py.                                      *)
(*                                                                         *)
(* Python values, type expressions, fields and schema classes are records  *)
(* tagged by "t".  Metadata dicts are objects of a store, addressed by     *)
(* reference, so that "the callee writes to a copy" is something the model *)
(* can get wrong.  Recursion is counted in frames and ends with            *)
(* RecursionError at RecursionLimit, as the interpreter ends it.           *)
(***************************************************************************)
EXTENDS Integers, Sequences, FiniteSets, TLC

VARIABLES pc, call, result, heap

vars == <<pc, call, result, heap>>

----------------------------------------------------------------------------
(* Bounds of the model *)

\* wrappers (List, Optional, NewType, Dict) stacked over an atom in the
\* type expressions handed to field_for_schema
MaxWraps == 2

\* longest cycle of record classes handed to class_schema
MaxRing == 2

\* frames of field_for_schema / class_schema before RecursionError
RecursionLimit == 12

----------------------------------------------------------------------------
(* Python values *)

None == [t |-> "NoneType"]
\* marshmallow.missing
missing == [t |-> "missing"]
\* attr.NOTHING
NOTHING == [t |-> "NOTHING"]
True == [t |-> "bool", b |-> TRUE]
False == [t |-> "bool", b |-> FALSE]
PyInt(v) == [t |-> "int", v |-> v]
PyStr(s) == [t |-> "str", s |-> s]
\* a callable object such as the builtin list
PyCallable(s) == [t |-> "callable", s |-> s]
\* attr.Factory(factory)
Factory(f) == [t |-> "Factory", factory |-> f]
\* the decorator attr.dataclass(None) returns
WrapFunction == [t |-> "function", s |-> "wrap"]

\* bool(v): None, False, 0 and "" are falsy, every other value of the model
\* (fields, classes, functions, non-empty strings) is truthy
Truthy(v) ==
    CASE v.t = "NoneType" -> FALSE
      [] v.t = "bool" -> v.b
      [] v.t = "int" -> v.v # 0
      [] v.t = "str" -> v.s # ""
      [] OTHER -> TRUE

----------------------------------------------------------------------------
(* dicts: functions from keys to values *)

EmptyDict == <<>>

\* d.get(k), None when absent
get(d, k) == IF k \in DOMAIN d THEN d[k] ELSE None

\* d.get(k, dflt)
get_or(d, k, dflt) == IF k \in DOMAIN d THEN d[k] ELSE dflt

\* d[k] = v
setitem(d, k, v) == (k :> v) @@ d

\* d.setdefault(k, v)
setdefault(d, k, v) == IF k \in DOMAIN d THEN d ELSE (k :> v) @@ d

----------------------------------------------------------------------------
(* Type expressions *)

\* class names: fixture classes have an empty cfg, the classes of a ring
\* carry the ring's edge shapes and their place in it
ClassName(n) == [cn |-> n, cfg |-> <<>>, i |-> 0]
RingName(cfg, i) == [cn |-> "Ring", cfg |-> cfg, i |-> i]

Cls(name) == [t |-> "class", name |-> name]
Builtin(n) == Cls(ClassName(n))
NoneType == Builtin("NoneType")
AnyT == [t |-> "Any"]
ListT(a) == [t |-> "List", targs |-> <<a>>]
DictT(k, v) == [t |-> "Dict", targs |-> <<k, v>>]
CallableT == [t |-> "Callable"]
UnionT(args) == [t |-> "Union", targs |-> args]
OptionalT(a) == UnionT(<<a, NoneType>>)
NewTypeT(name, super) == [t |-> "NewType", alias |-> name, supertype |-> super]
EnumT(n) == [t |-> "Enum", name |-> ClassName(n)]
ForwardRefT(name) == [t |-> "ForwardRef", arg |-> name]

----------------------------------------------------------------------------
(* Record classes: what attr.fields and inspect.getmembers read *)

\* attribute names are sequences of characters, so that startswith("_") is
\* computed, not assumed
N_name == <<"n", "a", "m", "e">>
N_height == <<"h", "e", "i", "g", "h", "t">>
N_best_building == <<"b", "e", "s", "t", "_", "b">>
N_other_buildings == <<"o", "t", "h", "e", "r", "_", "b">>
N_friends == <<"f", "r", "i", "e", "n", "d", "s">>
N_important == <<"i", "m", "p">>
N_unimportant == <<"u", "n", "i", "m", "p">>
N_url == <<"u", "r", "l">>
N_validate == <<"v", "a", "l", "i", "d", "a", "t", "e">>
N_Meta == <<"M", "e", "t", "a">>
N_init == <<"_", "_", "i", "n", "i", "t", "_", "_">>
N_private == <<"_", "p">>
N_x == <<"x">>
N_y == <<"y">>
N_next == <<"n", "e", "x", "t">>

\* an attr.ib of a class
Attribute(fname, type, default, metadata, init) ==
    [fname |-> fname, type |-> type, default |-> default,
     metadata |-> metadata, init |-> init]

\* a member of a class that is no field descriptor
Member(s) == [t |-> "member", s |-> s]

\* a field the user built, handed over as metadata["marshmallow_field"]
UrlField == [t |-> "Field", cls |-> "Url", args |-> <<>>, kwargs |-> EmptyDict]

Meters == NewTypeT("Meters", Builtin("float"))

\* the edges a class of a ring can have to the next class of the ring: the
\* class itself (a resolved annotation) or a forward reference, bare or
\* inside a sequence, a mapping or an optional
EdgeShapes ==
    {"C", "List[C]", "Optional[C]", "Dict[str,C]", "List['C']", "Optional['C']"}

ForwardShapes == {"List['C']", "Optional['C']"}

EdgeType(shape, target) ==
    CASE shape = "C" -> Cls(target)
      [] shape = "List[C]" -> ListT(Cls(target))
      [] shape = "Optional[C]" -> OptionalT(Cls(target))
      [] shape = "Dict[str,C]" -> DictT(Builtin("str"), Cls(target))
      [] shape = "List['C']" -> ListT(ForwardRefT(target))
      [] shape = "Optional['C']" -> OptionalT(ForwardRefT(target))

\* the class a name denotes: whether attrs decorated it (__attrs_attrs__),
\* its fields in declaration order, and its members (inspect.getmembers)
ClassDef(name) ==
    CASE name.cn = "Building" ->
           [attrs |-> TRUE,
            fields |-> <<Attribute(N_height, OptionalT(Meters), NOTHING, EmptyDict, TRUE),
                         Attribute(N_name, Builtin("str"), PyStr("anonymous"), EmptyDict, TRUE)>>,
            members |-> (N_Meta :> Member("Meta")) @@ (N_init :> Member("__init__"))]
      [] name.cn = "City" ->
           [attrs |-> TRUE,
            fields |-> <<Attribute(N_name, Builtin("str"), NOTHING, [required |-> True], TRUE),
                         Attribute(N_best_building, Cls(ClassName("Building")), NOTHING, EmptyDict, TRUE),
                         Attribute(N_other_buildings, ListT(Cls(ClassName("Building"))),
                                   Factory(PyCallable("list")), EmptyDict, TRUE)>>,
            members |-> (N_init :> Member("__init__"))]
      [] name.cn = "Person" ->
           [attrs |-> TRUE,
            fields |-> <<Attribute(N_name, Builtin("str"), PyStr("Anonymous"), EmptyDict, TRUE),
                         Attribute(N_friends, ListT(ForwardRefT(ClassName("Person"))),
                                   Factory(PyCallable("list")), EmptyDict, TRUE)>>,
            members |-> (N_init :> Member("__init__"))]
      [] name.cn = "C" ->
           [attrs |-> TRUE,
            fields |-> <<Attribute(N_important, Builtin("int"), PyInt(0), EmptyDict, TRUE),
                         Attribute(N_unimportant, Builtin("int"), PyInt(0), EmptyDict, FALSE)>>,
            members |-> (N_init :> Member("__init__"))]
      [] name.cn = "Website" ->
           [attrs |-> TRUE,
            fields |-> <<Attribute(N_url, Builtin("str"), NOTHING,
                                   [marshmallow_field |-> UrlField], TRUE)>>,
            members |-> (N_init :> Member("__init__"))]
      [] name.cn = "NeverValid" ->
           [attrs |-> TRUE,
            fields |-> <<>>,
            members |-> (N_validate :> Member("validate")) @@ (N_init :> Member("__init__"))]
      \* a slotted record: its fields are also members (slot descriptors),
      \* one of them kept out of __init__
      [] name.cn = "Slotted" ->
           [attrs |-> TRUE,
            fields |-> <<Attribute(N_x, Builtin("int"), NOTHING, EmptyDict, TRUE),
                         Attribute(N_y, Builtin("int"), PyInt(0), [required |-> True], FALSE),
                         Attribute(N_private, Builtin("str"), PyStr(""), EmptyDict, TRUE)>>,
            members |-> (N_x :> Member("slot x")) @@ (N_y :> Member("slot y"))
                        @@ (N_private :> Member("slot _p")) @@ (N_validate :> Member("validate"))]
      \* a class with annotations that attrs never decorated
      [] name.cn = "Plain" ->
           [attrs |-> FALSE,
            fields |-> <<Attribute(N_x, Builtin("int"), NOTHING, EmptyDict, TRUE)>>,
            members |-> (N_init :> Member("__init__"))]
      [] name.cn = "Ring" ->
           [attrs |-> TRUE,
            fields |-> <<Attribute(N_x, Builtin("int"), NOTHING, EmptyDict, TRUE),
                         Attribute(N_next,
                                   EdgeType(name.cfg[name.i],
                                            RingName(name.cfg, (name.i % Len(name.cfg)) + 1)),
                                   NOTHING, EmptyDict, TRUE)>>,
            members |-> (N_init :> Member("__init__"))]
      \* builtins and every other class: no attrs, no fields
      [] OTHER ->
           [attrs |-> FALSE, fields |-> <<>>, members |-> EmptyDict]

----------------------------------------------------------------------------
(* The object store: metadata dicts by reference, and the classes attrs
   has decorated since the module was loaded *)

NoName == ClassName("")
\* metadata=None
NoRef == [obj |-> "None", cls |-> NoName, i |-> 0]
\* the dict the caller of field_for_schema passes
ArgRef == [obj |-> "arg", cls |-> NoName, i |-> 0]
\* attr.fields(cls)[i].metadata
FieldRef(cls, i) == [obj |-> "field", cls |-> cls, i |-> i]
LocalRef(k) == [obj |-> "local", cls |-> NoName, i |-> k]

\* objs holds the dicts written or created so far; a field's metadata that
\* nobody wrote is as declared
EmptyStore == [objs |-> EmptyDict, n |-> 0, decorated |-> {}]

deref(h, a) ==
    IF a \in DOMAIN h.objs THEN h.objs[a]
    ELSE ClassDef(a.cls).fields[a.i].metadata

store(h, a, d) == [h EXCEPT !.objs = (a :> d) @@ h.objs]

\* a new dict object
new_dict(h, d) ==
    [heap |-> [h EXCEPT !.objs = (LocalRef(h.n + 1) :> d) @@ h.objs, !.n = h.n + 1],
     ref |-> LocalRef(h.n + 1)]

----------------------------------------------------------------------------
(* What a call yields: a value or an exception, the store it leaves, and
   the branches it went through (a ghost, for the claims about what a call
   does not do) *)

Ev(e, a) == [e |-> e, a |-> a]

Return(v, h, log) == [ret |-> v, heap |-> h, log |-> log]

\* an exception; obj is what its message names, via how (__name__ or repr)
Exc(kind, via, obj) == [t |-> "raise", exc |-> kind, via |-> via, obj |-> obj]

IsRaise(r) == r.ret.t = "raise"

\* marshmallow.fields.<cls>(*args, **kwargs)
Field(cls, args, kwargs) == [t |-> "Field", cls |-> cls, args |-> args, kwargs |-> kwargs]

\* marshmallow.fields.Field.__init__: default=missing, required=False, missing=missing
FieldDefault(f) == get_or(f.kwargs, "default", missing)
FieldRequired(f) == get_or(f.kwargs, "required", False)
FieldMissing(f) == get_or(f.kwargs, "missing", missing)

----------------------------------------------------------------------------
(* typing_inspect, inspect and attrs, as far as the resolver uses them *)

\* typing_inspect.get_origin
get_origin(typ) ==
    CASE typ.t = "List" -> "list"
      [] typ.t = "Dict" -> "dict"
      [] typ.t = "Callable" -> "Callable"
      [] typ.t = "Union" -> "Union"
      [] OTHER -> "None"

\* typing_inspect.get_args
get_args(typ) == IF typ.t \in {"List", "Dict", "Union"} THEN typ.targs ELSE <<>>

\* typing_inspect.is_optional_type: NoneType itself, or a union with it
is_optional_type(typ) ==
    \/ typ = NoneType
    \/ /\ typ.t = "Union"
       /\ \E i \in 1..Len(typ.targs) : typ.targs[i] = NoneType

\* inspect.isclass
isclass(x) == x.t \in {"class", "Enum"}

\* TypeError(f"{getattr(clazz, '__name__', repr(clazz))} is not a dataclass
\* and cannot be turned into one.")
not_a_dataclass(clazz) ==
    IF clazz.t \in {"class", "Enum", "function", "NewType"}
    THEN Exc("TypeError", "__name__", clazz)
    ELSE Exc("TypeError", "repr", clazz)

\* attr.fields: TypeError for what is no class, NotAnAttrsClassError (a
\* ValueError) for a class attrs did not decorate
\* (members: what inspect.getmembers gives for the same class)
fields_of(clazz, def, h) ==
    IF clazz.t = "class" /\ (def.attrs \/ clazz.name \in h.decorated)
    THEN [t |-> "fields", fields |-> def.fields, members |-> def.members]
    ELSE Exc("NotAnAttrsClassError", "", clazz)

attr_fields(clazz, h) ==
    IF ~isclass(clazz) THEN Exc("TypeError", "", clazz)
    ELSE fields_of(clazz, ClassDef(clazz.name), h)

\* attr.dataclass(clazz): None yields the decorator itself, a class is
\* decorated in place, anything else fails inside attrs
attr_dataclass(clazz, h) ==
    IF clazz = None THEN Return(WrapFunction, h, <<>>)
    ELSE IF clazz.t = "class"
         THEN Return(clazz, [h EXCEPT !.decorated = @ \cup {clazz.name}], <<>>)
         ELSE Return(Exc("AttributeError", "", clazz), h, <<>>)

\* str.startswith("_") on an attribute name
startswith_underscore(k) == Len(k) > 0 /\ k[1] = "_"

----------------------------------------------------------------------------
(* _native_to_marshmallow, _get_field_default, _base_schema *)

\* the table with date under datetime's field class
_native_to_marshmallow_date_as_datetime ==
    [typ \in {Builtin("int"), Builtin("float"), Builtin("str"), Builtin("bool"),
              Builtin("dict"), Builtin("datetime"), Builtin("time"),
              Builtin("timedelta"), Builtin("date"), Builtin("Decimal"),
              Builtin("UUID"), AnyT} |->
        CASE typ = Builtin("int") -> "Integer"
          [] typ = Builtin("float") -> "Float"
          [] typ = Builtin("str") -> "String"
          [] typ = Builtin("bool") -> "Boolean"
          [] typ = Builtin("dict") -> "Dict"
          [] typ = Builtin("time") -> "Time"
          [] typ = Builtin("timedelta") -> "TimeDelta"
          [] typ = Builtin("Decimal") -> "Decimal"
          [] typ = Builtin("UUID") -> "UUID"
          [] typ = AnyT -> "Raw"
          [] OTHER -> "DateTime"]

_native_to_marshmallow ==
    (Builtin("int") :> "Integer")
    @@ (Builtin("float") :> "Float")
    @@ (Builtin("str") :> "String")
    @@ (Builtin("bool") :> "Boolean")
    @@ (Builtin("dict") :> "Dict")
    @@ (Builtin("datetime") :> "DateTime")
    @@ (Builtin("time") :> "Time")
    @@ (Builtin("timedelta") :> "TimeDelta")
    @@ (Builtin("date") :> "Date")
    @@ (Builtin("Decimal") :> "Decimal")
    @@ (Builtin("UUID") :> "UUID")
    @@ (AnyT :> "Raw")

_get_field_default(field) ==
    IF field.default.t = "Factory" THEN field.default.factory
    ELSE IF field.default = NOTHING THEN missing
    ELSE field.default

_base_schema(clazz) == [t |-> "BaseSchema", make_data_class |-> clazz]

----------------------------------------------------------------------------
(* field_for_schema and class_schema.  A value computed once and read
   several times is handed on as a parameter, so each function is a chain
   of stages in the order of its statements. *)

RECURSIVE field_for_schema(_, _, _, _, _)
RECURSIVE class_schema(_, _, _)
RECURSIVE update_attributes(_, _, _, _, _, _, _)

RecursionError(h) == Return(Exc("RecursionError", "", None), h, <<>>)

\* metadata = {} if metadata is None else dict(metadata)
\* the caller's dict itself in place of a copy
copy_metadata_aliased(metadata, h) ==
    IF metadata = NoRef THEN new_dict(h, EmptyDict)
    ELSE [heap |-> store(h, metadata, deref(h, metadata)), ref |-> metadata]

copy_metadata(metadata, h) ==
    IF metadata = NoRef THEN new_dict(h, EmptyDict)
    ELSE new_dict(h, deref(h, metadata))

\* the default argument dropped
apply_default_dropped(d, default) == setdefault(d, "required", True)

\* the default argument written over the metadata's entries
apply_default_overwriting(d, default) ==
    IF default # missing
    THEN setitem(setitem(d, "default", default), "required", False)
    ELSE setitem(d, "required", True)

\* the default argument written into the metadata
apply_default(d, default) ==
    IF default # missing
    THEN setdefault(setdefault(d, "default", default), "required", False)
    ELSE setdefault(d, "required", True)

\* the override never found
predefined_field_ignored(d) == None

\* metadata.get("marshmallow_field")
predefined_field(d) == get(d, "marshmallow_field")

\* next(t for t in typing_inspect.get_args(typ) if t is not NoneType)
first_not_none(args) ==
    IF \E i \in 1..Len(args) : args[i] # NoneType
    THEN args[CHOOSE i \in 1..Len(args) :
                 /\ args[i] # NoneType
                 /\ \A j \in 1..(i - 1) : args[j] = NoneType]
    ELSE Exc("StopIteration", "", None)

\* the optional branch with default and missing forced to None
optional_metadata_forced(d) ==
    setitem(setitem(setitem(d, "default", None), "missing", None), "required", False)

\* the optional branch's writes to the metadata
optional_metadata(d) ==
    setitem(setitem(setitem(d, "default", get_or(d, "default", None)),
                    "missing", get_or(d, "missing", None)),
            "required", False)

\* typing.NewType: a function with a __supertype__
is_newtype(typ) == typ.t = "NewType" /\ Truthy(typ.supertype)

\* the alias name written over the metadata's description
newtype_metadata_overwriting(d, typ) == setitem(d, "description", PyStr(typ.alias))

\* metadata.setdefault("description", typ.__name__)
newtype_metadata(d, typ) == setdefault(d, "description", PyStr(typ.alias))

\* type(typ) is EnumMeta
is_enum(typ) == typ.t = "Enum"

\* no type taken for a forward reference
forward_reference_absent(typ) == None

\* getattr(typ, "__forward_arg__", None)
forward_reference(typ) ==
    IF typ.t = "ForwardRef" THEN [t |-> "name", name |-> typ.arg] ELSE None

\* a call's result handed on with the caller's branch in front of its log
Logged(ev, r) == Return(r.ret, r.heap, <<ev>> \o r.log)

\* marshmallow.fields.List(field_for_schema(list_elements_type), **metadata)
list_field(typ, md, e) ==
    IF IsRaise(e) THEN Logged(Ev("List", typ), e)
    ELSE Return(Field("List", <<e.ret>>, e.heap.objs[md]), e.heap,
                <<Ev("List", typ)>> \o e.log)

\* marshmallow.fields.Dict(keys=..., values=..., **metadata)
dict_field(typ, md, k, v) ==
    IF IsRaise(v) THEN Return(v.ret, v.heap, <<Ev("Dict", typ)>> \o k.log \o v.log)
    ELSE Return(Field("Dict", <<>>,
                      ("keys" :> k.ret) @@ ("values" :> v.ret) @@ v.heap.objs[md]),
                v.heap, <<Ev("Dict", typ)>> \o k.log \o v.log)

\* the keys' field is resolved first, then the values'
dict_values(typ, md, k, depth) ==
    IF IsRaise(k) THEN Logged(Ev("Dict", typ), k)
    ELSE dict_field(typ, md, k,
                    field_for_schema(get_args(typ)[2], missing, NoRef, k.heap, depth + 1))

\* the optional branch
optional_field(typ, md, d, h, subtyp, depth) ==
    IF subtyp.t = "raise" THEN Return(subtyp, h, <<Ev("Optional", typ)>>)
    ELSE Logged(Ev("Optional", typ),
                field_for_schema(subtyp, missing, md,
                                 store(h, md, optional_metadata(d)), depth + 1))

\* marshmallow.fields.Nested(nested, **metadata), nested a schema class
nested_schema(typ, md, s) ==
    IF IsRaise(s) THEN Logged(Ev("Nested", typ), s)
    ELSE Return(Field("Nested", <<s.ret>>, s.heap.objs[md]), s.heap,
                <<Ev("Nested", typ)>> \o s.log)

\* nested = forward_reference or class_schema(typ)
nested_field(typ, md, d, h, forward, depth) ==
    IF Truthy(forward)
    THEN Return(Field("Nested", <<forward>>, d), h, <<Ev("Nested", typ)>>)
    ELSE nested_schema(typ, md, class_schema(typ, h, depth + 1))

\* the branches of field_for_schema, in its order: md is the call's own
\* dict, d its contents, predefined the override, origin the generic origin
dispatch(typ, default, md, d, h, predefined, origin, depth) ==
    IF Truthy(predefined)
    THEN Return(predefined, h, <<Ev("predefined_field", typ)>>)
    ELSE IF typ \in DOMAIN _native_to_marshmallow
    THEN Return(Field(_native_to_marshmallow[typ], <<>>, d), h, <<Ev("native", typ)>>)
    ELSE IF origin = "list"
    THEN list_field(typ, md,
                    field_for_schema(get_args(typ)[1], missing, NoRef, h, depth + 1))
    ELSE IF origin = "dict"
    THEN dict_values(typ, md,
                     field_for_schema(get_args(typ)[1], missing, NoRef, h, depth + 1),
                     depth)
    ELSE IF origin = "Callable"
    THEN Return(Field("Function", <<>>, d), h, <<Ev("Callable", typ)>>)
    ELSE IF is_optional_type(typ)
    THEN optional_field(typ, md, d, h, first_not_none(get_args(typ)), depth)
    ELSE IF is_newtype(typ)
    THEN Logged(Ev("NewType", typ),
                field_for_schema(typ.supertype, default, md,
                                 store(h, md, newtype_metadata(d, typ)), depth + 1))
    ELSE IF is_enum(typ)
    THEN Return(Field("EnumField", <<typ>>, d), h, <<Ev("Enum", typ)>>)
    ELSE nested_field(typ, md, d, h, forward_reference(typ), depth)

\* the call's own dict md, with the default argument written into it
normalised(typ, default, md, d, h, depth) ==
    dispatch(typ, default, md, d, store(h, md, d), predefined_field(d),
             get_origin(typ), depth)

\* c: the copy of the metadata argument and the store that holds it
with_copy(typ, default, c, depth) ==
    normalised(typ, default, c.ref, apply_default(c.heap.objs[c.ref], default),
               c.heap, depth)

field_for_schema(typ, default, metadata, h, depth) ==
    IF depth > RecursionLimit THEN RecursionError(h)
    ELSE with_copy(typ, default, copy_metadata(metadata, h), depth)

\* {k: v for k, v in inspect.getmembers(clazz) if not k.startswith("_")}
public_members(members) ==
    [k \in {k \in DOMAIN members : ~startswith_underscore(k)} |-> members[k]]

\* every field taken, init or not
field_participates_always(field) == TRUE

\* the filter of the generator: if field.init
field_participates(field) == field.init

\* type(clazz.__name__, (_base_schema(clazz),), attributes)
SchemaClass(clazz, attributes) ==
    [t |-> "Schema", name |-> clazz.name, bases |-> <<_base_schema(clazz)>>,
     attributes |-> attributes]

\* one item of the generator: f is the field's resolution
update_item(clazz, fields, i, attributes, f, log, depth) ==
    IF IsRaise(f) THEN Return(f.ret, f.heap, log \o f.log)
    ELSE update_attributes(clazz, fields, i + 1,
                           setitem(attributes, fields[i].fname, f.ret),
                           f.heap, log \o f.log, depth)

\* attributes.update((field.name, field_for_schema(field.type,
\* _get_field_default(field), field.metadata)) for field in fields
\* if field.init), from field i on, and the schema class built of them
update_attributes(clazz, fields, i, attributes, h, log, depth) ==
    IF i > Len(fields)
    THEN Return(SchemaClass(clazz, attributes), h, log)
    ELSE IF ~field_participates(fields[i])
    THEN update_attributes(clazz, fields, i + 1, attributes, h, log, depth)
    ELSE update_item(clazz, fields, i, attributes,
                     field_for_schema(fields[i].type, _get_field_default(fields[i]),
                                      FieldRef(clazz.name, i), h, depth + 1),
                     log, depth)

\* except Exception around class_schema(attr.dataclass(clazz))
coerced(clazz, inner) ==
    IF IsRaise(inner)
    THEN Return(not_a_dataclass(clazz), inner.heap,
                <<Ev("class_schema", clazz), Ev("attr.dataclass", clazz)>> \o inner.log)
    ELSE Return(inner.ret, inner.heap,
                <<Ev("class_schema", clazz), Ev("attr.dataclass", clazz)>> \o inner.log)

\* except TypeError: try class_schema(attr.dataclass(clazz))
coerce(clazz, dc, depth) ==
    IF IsRaise(dc)
    THEN Return(not_a_dataclass(clazz), dc.heap,
                <<Ev("class_schema", clazz), Ev("attr.dataclass", clazz)>>)
    ELSE coerced(clazz, class_schema(dc.ret, dc.heap, depth + 1))

\* fields: what attr.fields(clazz) gave or raised
with_fields(clazz, fields, h, depth) ==
    IF fields.t = "raise"
    THEN IF fields.exc = "TypeError"
         THEN coerce(clazz, attr_dataclass(clazz, h), depth)
         ELSE Return(fields, h, <<Ev("class_schema", clazz)>>)
    ELSE update_attributes(clazz, fields.fields, 1, public_members(fields.members),
                           h, <<Ev("class_schema", clazz)>>, depth)

class_schema(clazz, h, depth) ==
    IF depth > RecursionLimit THEN RecursionError(h)
    ELSE with_fields(clazz, attr_fields(clazz, h), h, depth)

----------------------------------------------------------------------------
(* The arguments the calls are made with *)

\* the default argument: none, None, and the doctest's 9
Defaults == {missing, None, PyInt(9)}

RequiredOpts == {EmptyDict, [required |-> True], [required |-> False]}
DefaultOpts == {EmptyDict, [default |-> PyInt(5)]}
MissingOpts == {EmptyDict, [missing |-> PyInt(7)]}
DescriptionOpts == {EmptyDict, [description |-> PyStr("d")]}
OverrideOpts == {EmptyDict, [marshmallow_field |-> UrlField], [marshmallow_field |-> None]}

\* the metadata argument: None, or a dict with any of the recognised keys
MetadataArgs ==
    {[given |-> FALSE, dict |-> EmptyDict]}
    \cup {[given |-> TRUE, dict |-> a @@ b @@ c @@ d @@ e] :
            a \in RequiredOpts, b \in DefaultOpts, c \in MissingOpts,
            d \in DescriptionOpts, e \in OverrideOpts}

Color == EnumT("Color")
Person == ClassName("Person")
Building == ClassName("Building")
Plain == ClassName("Plain")
\* a record whose field is the record itself, not a forward reference
Loop == RingName(<<"C">>, 1)

\* every type of the table
NativeTypes == DOMAIN _native_to_marshmallow

\* the types the wrappers are stacked over
WrapAtoms ==
    {Builtin("int"), Meters, CallableT, Color, ForwardRefT(Person), Cls(Building)}

Wrap(T) == {ListT(T), OptionalT(T), DictT(Builtin("str"), T), NewTypeT("UserId", T)}

\* types that end in an exception: a class attrs never decorated, a record
\* that holds itself, unions with several members that are not None
Unsupported ==
    {Cls(Plain), Cls(Loop), ListT(Cls(Plain)), OptionalT(Cls(Loop)),
     UnionT(<<Builtin("int"), Builtin("str")>>)}

RECURSIVE Wrapped(_)
Wrapped(n) ==
    IF n = 0 THEN WrapAtoms
    ELSE LET prev == Wrapped(n - 1) IN prev \cup UNION {Wrap(T) : T \in prev}

\* optional unions with more than one member that is not None, or with
\* None first
OtherUnions ==
    {UnionT(<<Builtin("int"), Builtin("str"), NoneType>>),
     UnionT(<<NoneType, Builtin("str")>>)}

TypeExprs == NativeTypes \cup Wrapped(MaxWraps) \cup OtherUnions \cup Unsupported

RECURSIVE RingsOfLen(_)
RingsOfLen(n) ==
    IF n = 0 THEN {<<>>}
    ELSE {Append(cfg, s) : cfg \in RingsOfLen(n - 1), s \in EdgeShapes}

Rings == UNION {RingsOfLen(n) : n \in 1..MaxRing}

RingClasses == UNION {{Cls(RingName(cfg, i)) : i \in 1..Len(cfg)} : cfg \in Rings}

RecordClasses ==
    {Cls(ClassName(n)) :
        n \in {"Building", "City", "Person", "C", "Website", "NeverValid", "Slotted"}}

\* what is no record: values that are no class, typing objects, and classes
\* that attrs never decorated
NotClasses ==
    {None, PyInt(5), PyStr("Person"), ListT(Builtin("int")),
     UnionT(<<Builtin("int"), Builtin("str")>>), ForwardRefT(Person)}
UndecoratedClasses == {Cls(Plain), Builtin("int"), Color}

ClassSchemaArgs == RecordClasses \cup RingClasses \cup NotClasses \cup UndecoratedClasses

----------------------------------------------------------------------------
(* The calls *)

NoResult == [ret |-> None, log |-> <<>>]

FieldForSchemaCalls ==
    {[fn |-> "field_for_schema", typ |-> typ, default |-> default,
      given |-> m.given, dict |-> m.dict] :
        typ \in TypeExprs, default \in Defaults, m \in MetadataArgs}

ClassSchemaCalls ==
    {[fn |-> "class_schema", typ |-> clazz, default |-> missing,
      given |-> FALSE, dict |-> EmptyDict] : clazz \in ClassSchemaArgs}

\* the store the caller sees once the call is over: the callee's own dicts
\* are gone with its frames
Persistent(h) ==
    [objs |-> [a \in {a \in DOMAIN h.objs : a.obj # "local"} |-> h.objs[a]],
     n |-> 0, decorated |-> h.decorated]

\* a caller about to make one call, the metadata dict it passes in the store
Init ==
    /\ pc = "call"
    /\ call \in FieldForSchemaCalls \cup ClassSchemaCalls
    /\ result = NoResult
    /\ heap = IF call.given THEN store(EmptyStore, ArgRef, call.dict) ELSE EmptyStore

\* field_for_schema(typ, default, metadata)
FieldForSchema ==
    /\ pc = "call"
    /\ call.fn = "field_for_schema"
    /\ LET r == field_for_schema(call.typ, call.default,
                                 IF call.given THEN ArgRef ELSE NoRef, heap, 1)
       IN /\ result' = [ret |-> r.ret, log |-> r.log]
          /\ heap' = Persistent(r.heap)
    /\ pc' = "returned"
    /\ UNCHANGED call

\* class_schema(clazz)
ClassSchema ==
    /\ pc = "call"
    /\ call.fn = "class_schema"
    /\ LET r == class_schema(call.typ, heap, 1)
       IN /\ result' = [ret |-> r.ret, log |-> r.log]
          /\ heap' = Persistent(r.heap)
    /\ pc' = "returned"
    /\ UNCHANGED call

\* the caller takes the result and resolves the same declaration again,
\* with the same objects
Again ==
    /\ pc = "returned"
    /\ pc' = "call"
    /\ result' = NoResult
    /\ UNCHANGED <<call, heap>>

Next == FieldForSchema \/ ClassSchema \/ Again

Spec == Init /\ [][Next]_vars

----------------------------------------------------------------------------
(* What the claims read *)

ReturnedFFS == pc = "returned" /\ call.fn = "field_for_schema"
ReturnedCS == pc = "returned" /\ call.fn = "class_schema"

\* the metadata argument holds a field object under marshmallow_field
OverrideGiven ==
    /\ call.given
    /\ "marshmallow_field" \in DOMAIN call.dict
    /\ call.dict["marshmallow_field"].t = "Field"

\* field_for_schema(typ, default, metadata=d), called afresh
Resolved(typ, default, d) ==
    field_for_schema(typ, default, ArgRef, store(EmptyStore, ArgRef, d), 1).ret

\* Optional[...], directly or under type aliases
RECURSIVE UnwrapsToOptional(_)
UnwrapsToOptional(typ) ==
    \/ typ.t = "Union" /\ \E i \in 1..Len(typ.targs) : typ.targs[i] = NoneType
    \/ typ.t = "NewType" /\ UnwrapsToOptional(typ.supertype)

\* the classes a type expression names other than by forward reference
RECURSIVE DirectClasses(_)
DirectClasses(typ) ==
    CASE typ.t = "class" -> {typ.name}
      [] typ.t \in {"List", "Dict", "Union"} ->
           UNION {DirectClasses(typ.targs[i]) : i \in 1..Len(typ.targs)}
      [] typ.t = "NewType" -> DirectClasses(typ.supertype)
      [] OTHER -> {}

\* the classes the fields of a class name other than by forward reference
DirectSuccessors(name) ==
    LET fields == ClassDef(name).fields
    IN UNION {DirectClasses(fields[i].type) :
                i \in {i \in 1..Len(fields) : fields[i].init}}

RECURSIVE ReachableFrom(_, _)
ReachableFrom(names, n) ==
    IF n = 0 THEN names
    ELSE ReachableFrom(names \cup UNION {DirectSuccessors(c) : c \in names}, n - 1)

\* every cycle of the record graph of name passes through a forward
\* reference: no class it reaches without one reaches itself without one
ForwardGuarded(name) ==
    \A c \in ReachableFrom({name}, MaxRing + 2) :
        c \notin ReachableFrom(DirectSuccessors(c), MaxRing + 2)

IsRecordClass(x) == x.t = "class" /\ ClassDef(x.name).attrs

----------------------------------------------------------------------------
(* C1: whatever the type expression and the default, a field object under
   marshmallow_field in the metadata is returned as it is, and the call goes
   through the override branch alone: no table lookup, no generic, optional,
   alias or enum branch, no class_schema. *)
C1_OverrideVerbatim ==
    (ReturnedFFS /\ OverrideGiven) =>
        /\ result.ret = call.dict["marshmallow_field"]
        /\ result.log = <<Ev("predefined_field", call.typ)>>

\* the override is returned for a class that cannot be resolved at all
C1_Witness ==
    /\ ReturnedFFS /\ OverrideGiven
    /\ call.typ = Cls(Plain)
    /\ call.default = PyInt(9)
    /\ result.ret = UrlField

(* C2, as stated: without metadata, a default D gives default == D and
   required == False, and no default gives required == True, for every type
   expression that resolves to a field, optional ones included. *)
C2_Original ==
    (ReturnedFFS /\ ~call.given /\ result.ret.t = "Field") =>
        IF call.default # missing
        THEN FieldDefault(result.ret) = call.default /\ FieldRequired(result.ret) = False
        ELSE FieldRequired(result.ret) = True

(* C2, amended: as stated, except that with no default an optional type
   (Optional[...] directly or under type aliases) is not required and has
   default None. *)
C2_RequiredAndDefault ==
    (ReturnedFFS /\ ~call.given /\ result.ret.t = "Field") =>
        IF call.default # missing
        THEN FieldDefault(result.ret) = call.default /\ FieldRequired(result.ret) = False
        ELSE IF UnwrapsToOptional(call.typ)
        THEN FieldRequired(result.ret) = False /\ FieldDefault(result.ret) = None
        ELSE FieldRequired(result.ret) = True /\ FieldDefault(result.ret) = missing

\* a nested record with a default, and not required
C2_Witness ==
    /\ ReturnedFFS /\ ~call.given
    /\ call.typ = ListT(Cls(Building))
    /\ call.default = PyInt(9)
    /\ result.ret.t = "Field"
    /\ result.ret.cls = "List"
    /\ FieldDefault(result.ret) = PyInt(9)
    /\ FieldRequired(result.ret) = False

(* C3: required and default entries of the metadata are not overwritten by
   what the default argument implies: the metadata's default is the field's
   default for every type, and the metadata's required is the field's
   required for every type that is not optional, so that default=D with
   metadata {required: True} gives default == D and required == True. *)
C3_MetadataKept ==
    (ReturnedFFS /\ call.given /\ ~OverrideGiven /\ result.ret.t = "Field") =>
        /\ "default" \in DOMAIN call.dict =>
              FieldDefault(result.ret) = call.dict["default"]
        /\ ("required" \in DOMAIN call.dict /\ ~UnwrapsToOptional(call.typ)) =>
              FieldRequired(result.ret) = call.dict["required"]
        /\ ("default" \notin DOMAIN call.dict /\ call.default # missing) =>
              FieldDefault(result.ret) = call.default

\* the doctest: field_for_schema(int, default=9, metadata=dict(required=True))
C3_Witness ==
    /\ ReturnedFFS
    /\ call.typ = Builtin("int")
    /\ call.default = PyInt(9)
    /\ call.given /\ call.dict = [required |-> True]
    /\ result.ret = Field("Integer", <<>>, [default |-> PyInt(9), required |-> True])

\* the metadata with default=None, missing=None and required=False forced
ForcedMetadata(d) ==
    [k \in DOMAIN d \cup {"default", "missing", "required"} |->
        CASE k = "default" -> None
          [] k = "missing" -> None
          [] k = "required" -> False
          [] OTHER -> d[k]]

\* the metadata with required=False forced, and default and missing None
\* where neither the metadata nor the default argument gives them
OptionalMetadata(d, default) ==
    [k \in DOMAIN d \cup {"default", "missing", "required"} |->
        CASE k = "default" ->
               IF "default" \in DOMAIN d THEN d["default"]
               ELSE IF default # missing THEN default ELSE None
          [] k = "missing" -> IF "missing" \in DOMAIN d THEN d["missing"] ELSE None
          [] k = "required" -> False
          [] OTHER -> d[k]]

IsOptionalCall ==
    /\ ReturnedFFS /\ ~OverrideGiven
    /\ call.typ.t = "Union"
    /\ Len(call.typ.targs) = 2
    /\ call.typ.targs[2] = NoneType

(* C4, as stated: Optional[T] resolves to what T resolves to with
   default=None, missing=None and required=False forced into the metadata,
   whatever default the call or its metadata gave. *)
C4_Original ==
    IsOptionalCall =>
        result.ret = Resolved(call.typ.targs[1], missing, ForcedMetadata(call.dict))

(* C4, amended: Optional[T] resolves to what T resolves to, without default
   argument, under the same metadata with required=False forced and with
   default and missing set to None only where they are not given: the
   default stays the metadata's own, else the default argument, else None;
   missing stays the metadata's own, else None. *)
C4_OptionalUnwrapped ==
    IsOptionalCall =>
        result.ret = Resolved(call.typ.targs[1], missing,
                              OptionalMetadata(call.dict, call.default))

\* Optional[Meters] with a default of 9 and required in the metadata
C4_Witness ==
    /\ IsOptionalCall
    /\ call.typ = OptionalT(Meters)
    /\ call.default = PyInt(9)
    /\ call.given /\ call.dict = [required |-> True]
    /\ result.ret = Field("Float", <<>>,
                          [default |-> PyInt(9), missing |-> None, required |-> False,
                           description |-> PyStr("Meters")])

(* C5, as stated: for an input that is no record class, class_schema tries
   attr.dataclass on it and builds the schema of the outcome, or raises a
   TypeError naming the input; no other exception escapes. *)
C5_Claim ==
    (ReturnedCS /\ ~IsRecordClass(call.typ)) =>
        /\ \E i \in 1..Len(result.log) : result.log[i] = Ev("attr.dataclass", call.typ)
        /\ \/ result.ret.t = "Schema"
           \/ /\ result.ret.t = "raise"
              /\ result.ret.exc = "TypeError"
              /\ result.ret.obj = call.typ

(* C6: the attributes of the schema class of C are the public members of
   C, unchanged, with one resolved field under the name of each field of C
   that takes part in __init__, the field winning over a member of the same
   name; a field kept out of __init__ gets no resolved field. *)
C6_SchemaAttributes ==
    (ReturnedCS /\ result.ret.t = "Schema") =>
        LET def == ClassDef(call.typ.name)
            attributes == result.ret.attributes
            initFields == {i \in 1..Len(def.fields) : def.fields[i].init}
            initNames == {def.fields[i].fname : i \in initFields}
            public == {k \in DOMAIN def.members : k[1] # "_"}
        IN /\ DOMAIN attributes = public \cup initNames
           /\ \A k \in public \ initNames : attributes[k] = def.members[k]
           /\ \A i \in initFields :
                attributes[def.fields[i].fname] =
                    field_for_schema(def.fields[i].type,
                                     IF def.fields[i].default.t = "Factory"
                                     THEN def.fields[i].default.factory
                                     ELSE IF def.fields[i].default.t = "NOTHING"
                                     THEN missing
                                     ELSE def.fields[i].default,
                                     FieldRef(call.typ.name, i), EmptyStore, 2).ret

\* the slotted record: x resolved over its slot, y left as its slot, the
\* private field _p resolved, the private member dropped
C6_Witness ==
    /\ ReturnedCS
    /\ call.typ = Cls(ClassName("Slotted"))
    /\ result.ret.t = "Schema"
    /\ DOMAIN result.ret.attributes = {N_x, N_y, N_private, N_validate}
    /\ result.ret.attributes[N_x] = Field("Integer", <<>>, [required |-> True])
    /\ result.ret.attributes[N_y] = Member("slot y")
    /\ result.ret.attributes[N_private].t = "Field"

(* C7: class_schema ends without exhausting the stack for every record
   class whose cycles all pass through a forward reference; a forward
   reference is never handed to class_schema, and every other type that
   reaches the nested branch is. *)
C7_ForwardReferencesEndRecursion ==
    (ReturnedCS /\ IsRecordClass(call.typ)) =>
        /\ ForwardGuarded(call.typ.name) => result.ret.t = "Schema"
        /\ \A i \in 1..Len(result.log) :
             /\ result.log[i].e = "class_schema" => result.log[i].a.t # "ForwardRef"
             /\ (result.log[i].e = "Nested" /\ result.log[i].a.t # "ForwardRef") =>
                   \/ /\ i < Len(result.log)
                      /\ result.log[i + 1] = Ev("class_schema", result.log[i].a)
                   \/ /\ i = Len(result.log)
                      /\ result.ret = Exc("RecursionError", "", None)

\* a record with a field of type List['Self']
C7_Witness ==
    /\ ReturnedCS
    /\ call.typ = Cls(RingName(<<"List['C']">>, 1))
    /\ ForwardGuarded(call.typ.name)
    /\ result.ret.t = "Schema"
    /\ result.ret.attributes[N_next] =
         Field("List",
               <<Field("Nested", <<[t |-> "name", name |-> RingName(<<"List['C']">>, 1)]>>,
                       [required |-> True])>>,
               [required |-> True])

\* the field class of each type of the table
ExpectedNative(typ) ==
    CASE typ = Builtin("int") -> "Integer"
      [] typ = Builtin("float") -> "Float"
      [] typ = Builtin("str") -> "String"
      [] typ = Builtin("bool") -> "Boolean"
      [] typ = Builtin("dict") -> "Dict"
      [] typ = Builtin("datetime") -> "DateTime"
      [] typ = Builtin("time") -> "Time"
      [] typ = Builtin("timedelta") -> "TimeDelta"
      [] typ = Builtin("date") -> "Date"
      [] typ = Builtin("Decimal") -> "Decimal"
      [] typ = Builtin("UUID") -> "UUID"
      [] typ = AnyT -> "Raw"
      [] OTHER -> ""

(* C8: each of the twelve types of the table resolves, under any metadata
   without an override, to a field of exactly its field class, through the
   table branch alone: bare dict is a Dict field with no keys or values
   resolved. *)
C8_NativeTable ==
    (ReturnedFFS /\ ~OverrideGiven /\ ExpectedNative(call.typ) # "") =>
        /\ result.ret.t = "Field"
        /\ result.ret.cls = ExpectedNative(call.typ)
        /\ result.ret.args = <<>>
        /\ DOMAIN result.ret.kwargs \cap {"keys", "values"} = {}
        /\ result.log = <<Ev("native", call.typ)>>

\* bare dict, and date apart from datetime
C8_Witness ==
    /\ ReturnedFFS
    /\ call.typ = Builtin("date")
    /\ call.given /\ call.dict = [marshmallow_field |-> None]
    /\ call.default = missing
    /\ result.ret = Field("Date", <<>>, [marshmallow_field |-> None, required |-> True])

(* C9: a type alias A over S resolves, with default D and metadata M, to
   what S resolves to with default D and M plus description = the name of
   A, where M has no description; the field carries that description and
   the default D. *)
C9_NewTypeUnwrapped ==
    (ReturnedFFS /\ call.typ.t = "NewType") =>
        /\ result.ret =
             Resolved(call.typ.supertype, call.default,
                      IF "description" \in DOMAIN call.dict THEN call.dict
                      ELSE [k \in DOMAIN call.dict \cup {"description"} |->
                              IF k = "description" THEN PyStr(call.typ.alias)
                              ELSE call.dict[k]])
        /\ (~OverrideGiven /\ result.ret.t = "Field") =>
             /\ result.ret.kwargs["description"] =
                  IF "description" \in DOMAIN call.dict THEN call.dict["description"]
                  ELSE PyStr(call.typ.alias)
             /\ ("default" \notin DOMAIN call.dict /\ call.default # missing) =>
                  FieldDefault(result.ret) = call.default

\* an alias over an alias: the outer name is the description
C9_Witness ==
    /\ ReturnedFFS
    /\ call.typ = NewTypeT("UserId", Meters)
    /\ call.default = PyInt(9)
    /\ ~call.given
    /\ result.ret = Field("Float", <<>>,
                          [default |-> PyInt(9), required |-> False,
                           description |-> PyStr("UserId")])

(* C10: after any call the dict the caller passed and the metadata of
   every record field hold what they held before it: the default and
   required entries, the optional branch's None and False and the alias
   branch's description went to copies. *)
C10_MetadataUntouched ==
    pc = "returned" =>
        /\ call.given => (ArgRef \in DOMAIN heap.objs /\ heap.objs[ArgRef] = call.dict)
        /\ \A a \in DOMAIN heap.objs :
             a.obj = "field" => heap.objs[a] = ClassDef(a.cls).fields[a.i].metadata

\* the callee wrote four entries, the caller's dict has none of them
C10_Witness ==
    /\ ReturnedFFS
    /\ call.typ = OptionalT(NewTypeT("UserId", Builtin("int")))
    /\ call.given /\ call.dict = EmptyDict
    /\ DOMAIN result.ret.kwargs = {"default", "missing", "required", "description"}
    /\ heap.objs[ArgRef] = EmptyDict

============================================================================
